---- MODULE Spec2Model ----
(***************************************************************************)
(* Metropolis-coupled search: one hub goroutine and THREADS chain          *)
(* goroutines exchanging *State pointers over unbuffered channels.         *)
(*                                                                         *)
(* The repository holds two builds of the program:                         *)
(*   "ReportResume"  src/metropolis.go     two channels per chain          *)
(*                   (ReportChan, ResumeChan), revert by *my_state =       *)
(*                   old_state, target 500, Int31n(100000) - 50000         *)
(*   "PtrChan"       src/unnamed/part_000  one channel per chain           *)
(*                   (PtrChan), revert by my_state = &old_state,           *)
(*                   target 50000, Int31n(100) - 50                        *)
(* The variable variant says which build runs; it never changes.           *)
(***************************************************************************)
EXTENDS Integers, Sequences, FiniteSets, Bags, TLC

\* Number of chains. The source runs 6; the model runs fewer.
THREADS == 3

\* Cap on the total number of chain steps (Mutate calls) of a run.
MaxSteps == 4

VARIABLES
    variant,         \* which build: "ReportResume" or "PtrChan"
    Heat,            \* the heat ladder, in units of 1/HeatScale
    heap,            \* allocated State objects: pointer -> [World, Score]
    hub_pc,          \* position of the main goroutine (main, then hub)
    hub_n,           \* its loop index n
    state_pointers,  \* hub's local array
    main_tmp,        \* the pointer NewState() returned, until it is sent
    pc,              \* position of each chain goroutine
    my_state,        \* chain's local pointer
    old_state,       \* chain's local copy
    steps,           \* number of steps each chain has completed
    output,          \* what hub printed on success
    reported,        \* what crossed the report channels in the current round
    resumed          \* what crossed the resume channels in the current round

vars == <<variant, Heat, heap, hub_pc, hub_n, state_pointers, main_tmp, pc,
          my_state, old_state, steps, output, reported, resumed>>

Chains == 0 .. (THREADS - 1)

Variants == {"ReportResume", "PtrChan"}

-----------------------------------------------------------------------------
(* int32 arithmetic (State.Score and State.World are int32) *)

MaxInt32 == 2147483647

MinInt32 == (-MaxInt32) - 1

AddInt32(a, b) ==
    IF b > 0 /\ a > MaxInt32 - b
    THEN (a - MaxInt32 - 1) + (b - MaxInt32 - 1)
    ELSE IF b < 0 /\ a < MinInt32 - b
    THEN (a + MaxInt32 + 1) + (b + MaxInt32 + 1)
    ELSE a + b

SubInt32(a, b) ==
    IF b < 0 /\ a > MaxInt32 + b
    THEN (a - MaxInt32 - 1) + ((-(b + 1)) - MaxInt32)
    ELSE IF b > 0 /\ a < MinInt32 + b
    THEN (a + MaxInt32 + 1) + ((MaxInt32 - b) + 1)
    ELSE a - b

NegInt32(a) == IF a = MinInt32 THEN MinInt32 ELSE -a

-----------------------------------------------------------------------------
(* The State methods *)

ZeroState == [World |-> 0, Score |-> 0]

Target == IF variant = "ReportResume" THEN 500 ELSE 50000

SetScore(s) ==
    LET d == SubInt32(Target, s.World)
    IN  [s EXCEPT !.Score = IF d < 0 THEN NegInt32(d) ELSE d]

\* rand.Int31n(k) returns r with 0 <= r < k; Mutate adds r - k/2.
Int31nArg == IF variant = "ReportResume" THEN 100000 ELSE 100

MutateOffset == IF variant = "ReportResume" THEN 50000 ELSE 50

\* The values of rand.Int31n the model draws (increments -3, 495, 497, 500,
\* 508 in one build and -3, 5, 10 in the other).
Int31nSamples ==
    { r \in (IF variant = "ReportResume"
             THEN {49997, 50495, 50497, 50500, 50508}
             ELSE {47, 55, 60}) : r >= 0 /\ r < Int31nArg }

Mutate(s, r) == [s EXCEPT !.World = AddInt32(s.World, r - MutateOffset)]

\* Dump with the thread index off by one.
DumpNextThread(n, s) == [thread |-> n + 1, World |-> s.World, Score |-> s.Score]

Dump(n, s) == [thread |-> n, World |-> s.World, Score |-> s.Score]

NoOutput == [thread |-> -1, World |-> 0, Score |-> 0]

-----------------------------------------------------------------------------
(* Heat and the acceptance roll.  float64 values are counted in units of   *)
(* 1/HeatScale: 1.0 is HeatScale, 0.00001 is 1.                            *)

HeatScale == 100000

CodeHeat(v) ==
    IF v = "ReportResume"
    THEN <<0, 1, 10, 50, 100, 1000>>
    ELSE <<0, 1, 50, 500, 5000, 50000>>

\* The ladder of the documented scenario: 0 at slot 0 up to 1 at the last slot.
LinearHeat == [n \in Chains |-> (n * HeatScale) \div (THREADS - 1)]

HeatLadders(v) == { [n \in Chains |-> CodeHeat(v)[n + 1]], LinearHeat }

\* rand.Float64() returns a value in [0.0, 1.0): 0.0 is possible, 1.0 is not.
RollSamples == { r \in {0, 1, HeatScale \div 2, HeatScale - 1} : r >= 0 /\ r < HeatScale }

-----------------------------------------------------------------------------
(* The heap *)

MaxObjs == 2 * THREADS

Range(f) == { f[x] : x \in DOMAIN f }

NewObj(h) == CHOOSE p \in 1 .. MaxObjs :
                 /\ p \notin DOMAIN h
                 /\ \A q \in 1 .. MaxObjs : q < p => q \in DOMAIN h

Alloc(h, p, s) == (p :> s) @@ h

\* Objects no goroutine holds a pointer to are garbage.
Sweep(h, roots) == [p \in (DOMAIN h) \cap roots |-> h[p]]

NilEntry == [ptr |-> 0, World |-> 0, Score |-> 0]

Entry(h, p) == [ptr |-> p, World |-> h[p].World, Score |-> h[p].Score]

NoEntries == [n \in Chains |-> NilEntry]

-----------------------------------------------------------------------------
(* Channels.  A send and a receive on the same unbuffered channel pair up. *)

ReportChan(n) == IF variant = "ReportResume" THEN <<"ReportChan", n>> ELSE <<"PtrChan", n>>

ResumeChan(n) == IF variant = "ReportResume" THEN <<"ResumeChan", n>> ELSE <<"PtrChan", n>>

\* chain i is blocked in  my_state = <- ch
Receiving(i, ch) == pc[i] = "wait" /\ ch = ResumeChan(i)

\* chain i is blocked in  ch <- my_state
Sending(i, ch) == pc[i] = "report" /\ ch = ReportChan(i)

-----------------------------------------------------------------------------
Init ==
    /\ variant \in Variants
    /\ Heat \in HeatLadders(variant)
    /\ heap = << >>
    /\ hub_pc = "main_go"
    /\ hub_n = 0
    /\ state_pointers = [n \in Chains |-> 0]
    /\ main_tmp = 0
    /\ pc = [i \in Chains |-> "none"]
    /\ my_state = [i \in Chains |-> 0]
    /\ old_state = [i \in Chains |-> ZeroState]
    /\ steps = [i \in Chains |-> 0]
    /\ output = NoOutput
    /\ reported = NoEntries
    /\ resumed = NoEntries

-----------------------------------------------------------------------------
(* main *)

\* The start-up loop one chain short.
MainLoopShort(n) == n < THREADS - 1

MainLoop(n) == n < THREADS

\* go chain(n)
MainGo ==
    /\ hub_pc = "main_go"
    /\ pc' = [pc EXCEPT ![hub_n] = "wait"]
    /\ hub_pc' = "main_new"
    /\ UNCHANGED <<variant, Heat, heap, hub_n, state_pointers, main_tmp,
                   my_state, old_state, steps, output, reported, resumed>>

\* NewState()
MainNewState ==
    /\ hub_pc = "main_new"
    /\ LET p == NewObj(heap)
       IN  /\ heap' = Alloc(heap, p, SetScore(ZeroState))
           /\ main_tmp' = p
    /\ hub_pc' = "main_send"
    /\ UNCHANGED <<variant, Heat, hub_n, state_pointers, pc,
                   my_state, old_state, steps, output, reported, resumed>>

\* ResumeChan[n] <- NewState(), paired with the receive of a chain
MainSend ==
    /\ hub_pc = "main_send"
    /\ \E r \in Chains :
          /\ Receiving(r, ResumeChan(hub_n))
          /\ my_state' = [my_state EXCEPT ![r] = main_tmp]
          /\ pc' = [pc EXCEPT ![r] = "mutate"]
    /\ main_tmp' = 0
    /\ IF MainLoop(hub_n + 1)
       THEN hub_pc' = "main_go" /\ hub_n' = hub_n + 1
       ELSE hub_pc' = "collect" /\ hub_n' = 0
    /\ UNCHANGED <<variant, Heat, heap, state_pointers,
                   old_state, steps, output, reported, resumed>>

-----------------------------------------------------------------------------
(* chain *)

TotalSteps == LET RECURSIVE Sum(_)
                  Sum(n) == IF n < 0 THEN 0 ELSE steps[n] + Sum(n - 1)
              IN  Sum(THREADS - 1)

\* Steps begun: the completed ones and those between Mutate and the decision.
StepsBegun == TotalSteps + Cardinality({ i \in Chains : pc[i] = "decide" })

\* The revert test without the heat roll.
ShouldRevertNoRoll(cand, old, roll, heat) == cand.Score > old.Score

\* Revert to old state?
ShouldRevert(cand, old, roll, heat) == cand.Score > old.Score /\ roll > heat

\* A revert that restores World and leaves Score as rescored.
RevertWorldOnly(h, p, old) == [h EXCEPT ![p].World = old.World]

\* *my_state = old_state
RevertInPlace(h, p, old) == [h EXCEPT ![p] = old]

\* old_state := *my_state ; my_state.Mutate() ; my_state.SetScore()
ChainMutate(i) ==
    /\ pc[i] = "mutate"
    /\ StepsBegun < MaxSteps
    /\ \E r \in Int31nSamples :
          LET p == my_state[i]
          IN  /\ old_state' = [old_state EXCEPT ![i] = heap[p]]
              /\ heap' = [heap EXCEPT ![p] = SetScore(Mutate(heap[p], r))]
    /\ pc' = [pc EXCEPT ![i] = "decide"]
    /\ UNCHANGED <<variant, Heat, hub_pc, hub_n, state_pointers, main_tmp,
                   my_state, steps, output, reported, resumed>>

\* if my_state.Score > old_state.Score && rand.Float64() > Heat[index] { revert }
ChainDecide(i) ==
    /\ pc[i] = "decide"
    /\ \E roll \in RollSamples :
          LET p == my_state[i]
          IN  IF ShouldRevert(heap[p], old_state[i], roll, Heat[i])
              THEN IF variant = "ReportResume"
                   THEN /\ heap' = RevertInPlace(heap, p, old_state[i])
                        /\ my_state' = my_state
                   ELSE LET q == NewObj(heap)
                        IN  /\ heap' = Alloc(heap, q, old_state[i])
                            /\ my_state' = [my_state EXCEPT ![i] = q]
              ELSE /\ heap' = heap
                   /\ my_state' = my_state
    /\ pc' = [pc EXCEPT ![i] = "report"]
    /\ steps' = [steps EXCEPT ![i] = steps[i] + 1]
    /\ UNCHANGED <<variant, Heat, hub_pc, hub_n, state_pointers, main_tmp,
                   old_state, output, reported, resumed>>

-----------------------------------------------------------------------------
(* hub *)

\* The collect loop stopping one chain short.
CollectLoopShort(n) == n < THREADS - 1

CollectLoop(n) == n < THREADS

\* The exchange loop one comparison short.
ExchangeLoopShort(n) == n < THREADS - 2

ExchangeLoop(n) == n < THREADS - 1

ResumeLoop(n) == n < THREADS

\* The success test never met by a score of 0.
IsSuccessNegative(s) == s.Score < 0

\* The success test met by any score up to 5.
IsSuccessNear(s) == s.Score <= 5

IsSuccess(s) == s.Score = 0

\* The swap test exchanging equal scores too.
ShouldSwapOrEqual(a, b) == a.Score >= b.Score

ShouldSwap(a, b) == a.Score > b.Score

\* A swap that forgets the second assignment.
SwapLossy(sp, n) == [sp EXCEPT ![n] = sp[n + 1]]

Swap(sp, n) == [sp EXCEPT ![n] = sp[n + 1], ![n + 1] = sp[n]]

\* A complete sort substituted for the pass (done at its last iteration).
ExchangeStepFullSort(h, sp, n) ==
    IF n < THREADS - 2
    THEN sp
    ELSE CHOOSE q \in [Chains -> Range(sp)] :
             /\ \A p \in Range(sp) : \E m \in Chains : q[m] = p
             /\ \A m \in Chains : m < THREADS - 1 => h[q[m]].Score <= h[q[m + 1]].Score

ExchangeStep(h, sp, n) ==
    IF ShouldSwap(h[sp[n]], h[sp[n + 1]]) THEN Swap(sp, n) ELSE sp

\* state_pointers[n] = <- ReportChan[n], then the score test
HubCollect ==
    /\ hub_pc = "collect"
    /\ \E s \in Chains :
          /\ Sending(s, ReportChan(hub_n))
          /\ LET p  == my_state[s]
                 sp == [state_pointers EXCEPT ![hub_n] = p]
             IN  /\ state_pointers' = sp
                 /\ heap' = Sweep(heap, Range(sp) \cup Range(my_state))
                 /\ reported' = [(IF hub_n = 0 THEN NoEntries ELSE reported)
                                    EXCEPT ![hub_n] = Entry(heap, p)]
                 /\ resumed' = IF hub_n = 0 THEN NoEntries ELSE resumed
                 /\ IF IsSuccess(heap[p])
                    THEN /\ output' = Dump(hub_n, heap[p])
                         /\ hub_pc' = "done"
                         /\ hub_n' = hub_n
                    ELSE /\ output' = output
                         /\ IF CollectLoop(hub_n + 1)
                            THEN hub_pc' = "collect" /\ hub_n' = hub_n + 1
                            ELSE hub_pc' = "exchange" /\ hub_n' = 0
          /\ pc' = [pc EXCEPT ![s] = "wait"]
    /\ UNCHANGED <<variant, Heat, main_tmp, my_state, old_state, steps>>

\* one iteration of the compare-and-swap loop
HubExchange ==
    /\ hub_pc = "exchange"
    /\ state_pointers' = ExchangeStep(heap, state_pointers, hub_n)
    /\ IF ExchangeLoop(hub_n + 1)
       THEN hub_pc' = "exchange" /\ hub_n' = hub_n + 1
       ELSE hub_pc' = "resume" /\ hub_n' = 0
    /\ UNCHANGED <<variant, Heat, heap, main_tmp, pc, my_state, old_state,
                   steps, output, reported, resumed>>

\* ResumeChan[n] <- state_pointers[n], paired with the receive of a chain
HubResume ==
    /\ hub_pc = "resume"
    /\ \E r \in Chains :
          /\ Receiving(r, ResumeChan(hub_n))
          /\ my_state' = [my_state EXCEPT ![r] = state_pointers[hub_n]]
          /\ pc' = [pc EXCEPT ![r] = "mutate"]
    /\ resumed' = [resumed EXCEPT ![hub_n] = Entry(heap, state_pointers[hub_n])]
    /\ IF ResumeLoop(hub_n + 1)
       THEN hub_pc' = "resume" /\ hub_n' = hub_n + 1
       ELSE hub_pc' = "collect" /\ hub_n' = 0
    /\ UNCHANGED <<variant, Heat, heap, state_pointers, main_tmp,
                   old_state, steps, output, reported>>

-----------------------------------------------------------------------------
Next ==
    \/ MainGo
    \/ MainNewState
    \/ MainSend
    \/ \E i \in Chains : ChainMutate(i)
    \/ \E i \in Chains : ChainDecide(i)
    \/ HubCollect
    \/ HubExchange
    \/ HubResume

Spec == Init /\ [][Next]_vars

-----------------------------------------------------------------------------
(* Properties *)

AllReported == \A n \in Chains : reported[n].ptr # 0

AllResumed == \A n \in Chains : resumed[n].ptr # 0

SomeResumed == \E n \in Chains : resumed[n].ptr # 0

InLoop(i) == pc[i] \in {"wait", "mutate", "decide", "report"}

\* C1: barrier atomicity.  While the hub is in the exchange pass it holds a
\* report of this round from every chain, every chain is blocked waiting for
\* its next state and no resume of this round has been sent; a resume is sent
\* only from the resume loop, which the hub enters when the pass has finished,
\* and the chains not yet resumed are still waiting.
BarrierAtomicity ==
    /\ hub_pc = "exchange" =>
          /\ AllReported
          /\ ~SomeResumed
          /\ \A i \in Chains : pc[i] = "wait" /\ steps[i] = steps[0]
    /\ hub_pc = "resume" =>
          /\ AllReported
          /\ \A n \in Chains : (resumed[n].ptr # 0) <=> (n < hub_n)
          /\ \A n \in Chains : n >= hub_n => pc[n] = "wait"
    /\ SomeResumed =>
          /\ AllReported
          /\ hub_pc = "resume" \/ (hub_pc = "collect" /\ hub_n = 0 /\ AllResumed)

\* A round in which the hub has sent a resume and is about to send the next.
BarrierWitness ==
    /\ hub_pc = "resume"
    /\ hub_n = 1
    /\ resumed[0].ptr # 0
    /\ pc[0] = "decide"

\* C2: when the hub receives a report whose score is 0 it has terminated in
\* that round, its output is that state with the index of the reporting chain,
\* no resume of that round is ever sent and every chain whose report was
\* received stays blocked waiting, holding the state it reported.
TerminatesOnSuccess ==
    /\ \A n \in Chains :
          (reported[n].ptr # 0 /\ reported[n].Score = 0) =>
              /\ hub_pc = "done"
              /\ output = [thread |-> n, World |-> reported[n].World,
                           Score |-> reported[n].Score]
    /\ hub_pc = "done" =>
          /\ ~SomeResumed
          /\ \A i \in Chains :
                reported[i].ptr # 0 =>
                    /\ pc[i] = "wait"
                    /\ my_state[i] = reported[i].ptr
                    /\ Entry(heap, my_state[i]) = reported[i]

\* The hub has terminated on the report of a chain other than chain 0.
TerminatesWitness ==
    /\ hub_pc = "done"
    /\ output.thread = 1
    /\ output.Score = 0
    /\ reported[0].Score > 0

\* C3 as stated: when the hub has terminated every chain's report of the
\* round has been received and no chain is blocked on an unreceived report.
AllReportsConsumed ==
    hub_pc = "done" => AllReported /\ \A i \in Chains : pc[i] # "report"

\* C3 amended: the hub returns at the first slot n whose report has score 0.
\* It has received the reports of slots 0..n, all before n with a score other
\* than 0; the reports of slots n+1..N-1 are not received, and each of those
\* chains is still in its step or blocked on its report.
ReportsConsumedUpToSuccess ==
    hub_pc = "done" =>
        /\ output.thread \in Chains
        /\ \A k \in Chains :
              IF k <= output.thread
              THEN /\ reported[k].ptr # 0
                   /\ pc[k] = "wait"
                   /\ (k < output.thread => reported[k].Score # 0)
              ELSE /\ reported[k] = NilEntry
                   /\ pc[k] \in {"mutate", "decide", "report"}

\* The hub has returned and a later chain is blocked on its report.
BlockedReportWitness ==
    /\ hub_pc = "done"
    /\ output.thread = 0
    /\ \A k \in Chains : k > 0 => pc[k] = "report"

\* C4: the hub is out of its loop only when it has received a report of score
\* 0, and every chain that main has started is in its loop.
OnlyTerminationPath ==
    /\ hub_pc \in {"main_go", "main_new", "main_send",
                   "collect", "exchange", "resume", "done"}
    /\ hub_pc = "done" <=> (\E n \in Chains : reported[n].ptr # 0 /\ reported[n].Score = 0)
    /\ hub_pc = "done" => output.Score = 0
    /\ \A i \in Chains :
          IF hub_pc \in {"main_go", "main_new", "main_send"}
             /\ (i > hub_n \/ (i = hub_n /\ hub_pc = "main_go"))
          THEN pc[i] = "none"
          ELSE InLoop(i)

\* The hub has left its loop while chains are in each position of theirs.
OnlyTerminationWitness ==
    /\ hub_pc = "done"
    /\ \E i, j, k \in Chains : pc[i] = "wait" /\ pc[j] = "decide" /\ pc[k] = "report"

\* C5 as stated: a chain of heat 0 never reports a score above the score of
\* the state it received.
GreedyNeverRegresses ==
    \A i \in Chains :
        (Heat[i] = 0 /\ pc[i] = "report") =>
            heap[my_state[i]].Score <= old_state[i].Score

\* C6: a chain of heat 1 reports the mutated and rescored candidate, never
\* the copy it kept, whatever the roll.
HotChainAlwaysAccepts ==
    \A i \in Chains :
        (Heat[i] = HeatScale /\ pc[i] = "report") =>
            \E r \in Int31nSamples :
                /\ heap[my_state[i]] = SetScore(Mutate(old_state[i], r))
                /\ heap[my_state[i]] # old_state[i]

\* A chain of heat 1 reports a candidate worse than the state it received.
HotChainWitness ==
    \E i \in Chains :
        /\ Heat[i] = HeatScale
        /\ pc[i] = "report"
        /\ heap[my_state[i]].Score > old_state[i].Score

\* C7: the step keeps a copy of the received state; the decision reports the
\* candidate when its score is not above the copy's, and otherwise either the
\* candidate or a state whose World and Score are those of the copy.
StepReportsCandidateOrOld ==
    [][ \A i \in Chains :
          /\ (pc[i] = "mutate" /\ pc'[i] = "decide") =>
                /\ old_state'[i] = heap[my_state[i]]
                /\ my_state'[i] = my_state[i]
          /\ (pc[i] = "decide" /\ pc'[i] = "report") =>
                LET cand == heap[my_state[i]]
                    old  == old_state[i]
                    rep  == heap'[my_state'[i]]
                IN  /\ cand.Score <= old.Score => rep = cand
                    /\ rep = cand \/ rep = old
                    /\ old_state'[i] = old ]_vars

\* A step was reverted: the chain reports the values it received.
RevertWitness ==
    \E i \in Chains :
        /\ pc[i] = "report"
        /\ heap[my_state[i]] = old_state[i]
        /\ Heat[i] > 0

\* Slot occupants during one left-to-right pass over the array rep: Carry is
\* what sits in slot i when slot i is compared with slot i+1.
RECURSIVE Carry(_, _)
Carry(rep, i) ==
    IF i = 0
    THEN rep[0]
    ELSE IF Carry(rep, i - 1).Score > rep[i].Score
         THEN Carry(rep, i - 1)
         ELSE rep[i]

OnePass(rep) ==
    [n \in Chains |->
        IF n = THREADS - 1
        THEN Carry(rep, n)
        ELSE IF Carry(rep, n).Score > rep[n + 1].Score
             THEN rep[n + 1]
             ELSE Carry(rep, n)]

Scores(e) == [n \in Chains |-> e[n].Score]

\* C8: every state resumed in a round is the occupant of its slot after one
\* left-to-right adjacent pass over the reported array; reported scores
\* [5,3,8] are resumed as [3,5,8].
SinglePassExchange ==
    /\ \A n \in Chains : resumed[n].ptr # 0 => resumed[n] = OnePass(reported)[n]
    /\ (THREADS = 3 /\ AllResumed /\ Scores(reported) = (0 :> 5 @@ 1 :> 3 @@ 2 :> 8)) =>
          Scores(resumed) = (0 :> 3 @@ 1 :> 5 @@ 2 :> 8)

\* The scenario: scores 5, 3, 8 were reported and all chains were resumed.
SinglePassWitness ==
    /\ AllResumed
    /\ reported[0].Score = 5
    /\ reported[1].Score = 3
    /\ reported[2].Score = 8

ValueBag(e) ==
    LET V(n) == <<e[n].World, e[n].Score>>
    IN  [v \in { V(n) : n \in Chains } |-> Cardinality({ n \in Chains : V(n) = v })]

\* C9: the resumed states are a permutation of the reported ones: no state
\* goes to two slots, and once all are resumed the multiset of (World, Score)
\* and the set of objects are those reported.
ExchangeIsPermutation ==
    /\ \A n, m \in Chains :
          (n # m /\ resumed[n].ptr # 0 /\ resumed[m].ptr # 0) =>
              resumed[n].ptr # resumed[m].ptr
    /\ \A n \in Chains :
          resumed[n].ptr # 0 => \E m \in Chains : reported[m] = resumed[n]
    /\ AllResumed =>
          /\ ValueBag(resumed) = ValueBag(reported)
          /\ { resumed[n].ptr : n \in Chains } = { reported[n].ptr : n \in Chains }

\* All chains were resumed after a pass that moved states between slots.
PermutationWitness ==
    /\ AllResumed
    /\ \E n \in Chains : resumed[n].ptr # reported[n].ptr
    /\ Cardinality({ reported[n].Score : n \in Chains }) = THREADS

ReportedAscending ==
    /\ AllReported
    /\ \A n \in Chains : n < THREADS - 1 => reported[n].Score <= reported[n + 1].Score

\* C10: when the reported scores ascend with the slot index, the pass leaves
\* every slot with the state it reported.
SortedInputUnchanged ==
    ReportedAscending =>
        /\ \A n \in Chains : resumed[n].ptr # 0 => resumed[n] = reported[n]
        /\ hub_pc = "resume" => \A n \in Chains : state_pointers[n] = reported[n].ptr

\* Ascending reports with a tie and a strict step, all resumed.
SortedInputWitness ==
    /\ ReportedAscending
    /\ AllResumed
    /\ \E n \in Chains : n < THREADS - 1 /\ reported[n].Score = reported[n + 1].Score
    /\ \E n \in Chains : n < THREADS - 1 /\ reported[n].Score < reported[n + 1].Score

\* The int32 score of a payload: the distance to the target.
ScoreFor(w) ==
    LET d == SubInt32(Target, w)
    IN  IF d < 0 THEN NegInt32(d) ELSE d

\* C11: every state that crosses a channel (the initial one main is about to
\* send, every reported one, every resumed one, and the one a chain has just
\* received or is about to report) has the score of its own payload.
ScoreConsistency ==
    /\ main_tmp # 0 => heap[main_tmp].Score = ScoreFor(heap[main_tmp].World)
    /\ \A n \in Chains :
          /\ reported[n].ptr # 0 => reported[n].Score = ScoreFor(reported[n].World)
          /\ resumed[n].ptr # 0 => resumed[n].Score = ScoreFor(resumed[n].World)
          /\ pc[n] \in {"mutate", "report"} =>
                heap[my_state[n]].Score = ScoreFor(heap[my_state[n]].World)

\* A reverted state crossed the report channel in each build's way of reverting.
ScoreConsistencyWitness ==
    \E i \in Chains :
        /\ reported[i].ptr # 0
        /\ pc[i] = "wait"
        /\ steps[i] = 1
        /\ reported[i].World = 0
        /\ reported[i].Score = Target

\* chain i holds the state it received until its report is taken.
Holding(i) == pc[i] \in {"mutate", "decide", "report"}

HeldByChains == { my_state[i] : i \in { j \in Chains : Holding(j) } }

\* C12: no two chains hold the same State object at the same time, and the
\* objects the hub reads, swaps, sends or prints (the pair under comparison
\* and the slots still to compare or resume, the slots already collected, the
\* state it dumps, the new state main is about to send) are held by no chain.
ExclusiveOwnership ==
    /\ \A i, j \in Chains :
          (i # j /\ Holding(i) /\ Holding(j)) => my_state[i] # my_state[j]
    /\ main_tmp # 0 => main_tmp \notin HeldByChains
    /\ hub_pc = "collect" =>
          \A n \in Chains : n < hub_n => state_pointers[n] \notin HeldByChains
    /\ hub_pc = "exchange" =>
          \A n \in Chains : state_pointers[n] \notin HeldByChains
    /\ hub_pc = "resume" =>
          \A n \in Chains : n >= hub_n => state_pointers[n] \notin HeldByChains
    /\ hub_pc = "done" => state_pointers[output.thread] \notin HeldByChains

\* Chain 0 has mutated the state chain 1 reported, while the hub still resumes.
OwnershipWitness ==
    /\ hub_pc = "resume"
    /\ hub_n = 2
    /\ pc[0] = "decide"
    /\ pc[1] = "mutate"
    /\ my_state[0] = reported[1].ptr
    /\ my_state[1] = reported[0].ptr

-----------------------------------------------------------------------------
(* Runs under a heat ladder that is not a valid configuration *)

\* A ladder one entry longer than the chain count, and a ladder with a heat
\* below 0 at slot 0 and a heat above 1 at the last slot.
BadLadders(v) ==
    { [n \in 0 .. THREADS |-> CodeHeat(v)[n + 1]],
      [n \in Chains |-> IF n = 0 THEN -1
                        ELSE IF n = THREADS - 1 THEN HeatScale + (HeatScale \div 2)
                        ELSE CodeHeat(v)[n + 1]] }

InitBadConfig ==
    /\ variant \in Variants
    /\ Heat \in BadLadders(variant)
    /\ heap = << >>
    /\ hub_pc = "main_go"
    /\ hub_n = 0
    /\ state_pointers = [n \in Chains |-> 0]
    /\ main_tmp = 0
    /\ pc = [i \in Chains |-> "none"]
    /\ my_state = [i \in Chains |-> 0]
    /\ old_state = [i \in Chains |-> ZeroState]
    /\ steps = [i \in Chains |-> 0]
    /\ output = NoOutput
    /\ reported = NoEntries
    /\ resumed = NoEntries

SpecBadConfig == InitBadConfig /\ [][Next]_vars

ValidConfig ==
    /\ DOMAIN Heat = Chains
    /\ \A n \in DOMAIN Heat : Heat[n] >= 0 /\ Heat[n] <= HeatScale

\* C13 as stated: under a ladder whose length differs from the chain count or
\* that holds a heat outside [0,1], no chain performs a step and no round
\* starts.
ConfigErrorIsFatal ==
    ~ValidConfig =>
        /\ \A i \in Chains : steps[i] = 0 /\ pc[i] \notin {"decide", "report"}
        /\ hub_pc \notin {"collect", "exchange", "resume", "done"}

-----------------------------------------------------------------------------
(* Ties *)

AllTied == AllReported /\ \A n \in Chains : reported[n].Score = reported[0].Score

\* C14: equal scores are not exchanged.  When the value carried to slot n of
\* the pass scores the same as the report of slot n + 1, the carried value is
\* the one resumed on slot n; when every report of a round has the same score
\* every chain is resumed with the state it reported.  In the run with three
\* chains, heats 0, 0.5, 1, target 50000, payload 0 at the start and a first
\* mutation of +10 in every chain, all report score 49990 and get their own
\* state back.
TiesNotExchanged ==
    /\ \A n \in Chains :
          (n < THREADS - 1 /\ resumed[n].ptr # 0
             /\ Carry(reported, n).Score = reported[n + 1].Score) =>
                resumed[n] = Carry(reported, n)
    /\ AllTied => \A n \in Chains : resumed[n].ptr # 0 => resumed[n] = reported[n]
    /\ (variant = "PtrChan" /\ Heat = LinearHeat /\ AllReported
          /\ \A n \in Chains : steps[n] = 1 /\ reported[n].World = 10) =>
             \A n \in Chains :
                /\ reported[n].Score = 49990
                /\ resumed[n].ptr # 0 => resumed[n] = reported[n]

\* The scenario: every chain stepped once from payload 0 to 10, and all were
\* resumed.
TiesWitness ==
    /\ variant = "PtrChan" /\ Heat = LinearHeat
    /\ AllResumed
    /\ \A n \in Chains :
          steps[n] = 1 /\ reported[n].World = 10 /\ reported[n].Score = 49990

-----------------------------------------------------------------------------
(* Runs in which a resumed chain stops before it reports *)

Stalled(i) == pc[i] = "stalled"

\* A chain that has received a state (line 127) stops for good before it
\* mutates it.  At most one chain stops in a run.
Stall(i) ==
    /\ pc[i] = "mutate"
    /\ \A j \in Chains : ~Stalled(j)
    /\ pc' = [pc EXCEPT ![i] = "stalled"]
    /\ UNCHANGED <<variant, Heat, heap, hub_pc, hub_n, state_pointers, main_tmp,
                   my_state, old_state, steps, output, reported, resumed>>

NextStall == Next \/ \E i \in Chains : Stall(i)

SpecStall == Init /\ [][NextStall]_vars

\* C15 as stated: once a chain has stalled the hub never performs the
\* exchange pass, sends no resume of that round and never terminates.
StalledChainBlocksHub ==
    \A k \in Chains :
        Stalled(k) =>
            /\ hub_pc \notin {"exchange", "done"}
            /\ hub_pc = "resume" => hub_n > k
            /\ hub_pc = "collect" => hub_n <= k

\* C15: once chain k has stalled the hub never gets past the receive from
\* chain k in the collect loop: it never performs the exchange pass, a resume
\* it still sends belongs to the round before and goes to a chain after k,
\* and it terminates only on a score of 0 reported by a chain before k.
StalledChainBlocksHubUnlessSuccess ==
    \A k \in Chains :
        Stalled(k) =>
            /\ hub_pc # "exchange"
            /\ hub_pc = "resume" => hub_n > k
            /\ hub_pc = "collect" => hub_n <= k
            /\ hub_pc = "done" => output.thread < k /\ output.Score = 0

\* Chain 1 stalled after a resume; the hub has taken the report of chain 0
\* for that round and waits for chain 1.
StalledWitness ==
    /\ Stalled(1) /\ steps[1] >= 1
    /\ hub_pc = "collect" /\ hub_n = 1
    /\ reported[0].ptr # 0 /\ pc[0] = "wait" /\ steps[0] = steps[1] + 1

-----------------------------------------------------------------------------
(* Runs that have walked the payload to the ends of the int32 range *)

\* Payloads a long random walk of Mutate arrives at: three above the value
\* whose distance to the target is 2^31, and four below the largest int32.
WideWorlds == { AddInt32(MinInt32, Target + 3), MaxInt32 - 4 }

\* The start of a round late in such a run: every chain has just been resumed
\* with its own state and the hub waits for the first report.
InitInt32 ==
    /\ variant \in Variants
    /\ Heat \in HeatLadders(variant)
    /\ \E w \in WideWorlds :
          heap = [p \in 1 .. THREADS |-> SetScore([World |-> w, Score |-> 0])]
    /\ hub_pc = "collect"
    /\ hub_n = 0
    /\ state_pointers = [n \in Chains |-> n + 1]
    /\ main_tmp = 0
    /\ pc = [i \in Chains |-> "mutate"]
    /\ my_state = [i \in Chains |-> i + 1]
    /\ old_state = [i \in Chains |-> ZeroState]
    /\ steps = [i \in Chains |-> 0]
    /\ output = NoOutput
    /\ reported = NoEntries
    /\ resumed = NoEntries

NextInt32 ==
    \/ \E i \in Chains : ChainMutate(i)
    \/ \E i \in Chains : ChainDecide(i)
    \/ HubCollect
    \/ HubExchange
    \/ HubResume

SpecInt32 == InitInt32 /\ [][NextInt32]_vars

\* C16 as stated: every state a chain or the hub holds has a score that is
\* not negative, and the score is 0 exactly when the payload is the target.
ScoreNonNegativeZeroAtTarget ==
    \A p \in DOMAIN heap :
        /\ heap[p].Score >= 0
        /\ heap[p].Score = 0 <=> heap[p].World = Target

-----------------------------------------------------------------------------
(* Progress *)

\* The program as shipped: the heat ladder is the one of the source.
InitShipped == Init /\ Heat = [n \in Chains |-> CodeHeat(variant)[n + 1]]

\* Every goroutine that can run is eventually run: the hub (main) and each
\* chain take their enabled steps.
SpecFair ==
    /\ InitShipped
    /\ [][Next]_vars
    /\ WF_vars(MainGo \/ MainNewState \/ MainSend \/ HubCollect \/ HubExchange \/ HubResume)
    /\ \A i \in Chains : WF_vars(ChainMutate(i) \/ ChainDecide(i))

\* Some goroutine is not blocked: a chain is computing, the hub is computing,
\* or the hub's channel operation has its partner.
SomeThreadRuns ==
    \/ \E i \in Chains : pc[i] \in {"mutate", "decide"}
    \/ hub_pc \in {"main_go", "main_new", "exchange"}
    \/ hub_pc = "main_send" /\ \E r \in Chains : Receiving(r, ResumeChan(hub_n))
    \/ hub_pc = "collect" /\ \E s \in Chains : Sending(s, ReportChan(hub_n))
    \/ hub_pc = "resume" /\ \E r \in Chains : Receiving(r, ResumeChan(hub_n))

\* Chains that still have to begin their step of the current round.
Pending == { i \in Chains : pc[i] \in {"none", "mutate"} \/ (pc[i] = "wait" /\ my_state[i] = 0) }

\* The step bound of the model leaves room for the steps the round still needs.
RoundBudget == StepsBegun + Cardinality(Pending) <= MaxSteps

\* C17: progress without deadlock, in both channel layouts.  No state before
\* termination has every goroutine blocked, and every round completes unless
\* a score of 0 ends the program: from startup and from any point of a round
\* whose steps the model's bound still allows, either the hub terminates or
\* every chain is resumed (which the hub does only after it has collected all
\* reports and made the exchange pass).
ProgressWithoutDeadlock ==
    /\ [](hub_pc # "done" => SomeThreadRuns)
    /\ ((hub_pc \in {"exchange", "resume"} \/ RoundBudget)
            ~> (hub_pc = "done" \/ AllResumed))

\* A whole round completed over the single shared channel per chain.
ProgressWitness ==
    /\ variant = "PtrChan"
    /\ AllResumed /\ hub_pc = "collect" /\ hub_n = 0
    /\ \A i \in Chains : steps[i] = 1 /\ pc[i] = "mutate"

-----------------------------------------------------------------------------
(* Lockstep *)

\* chain i holds the state of its next step: it received it and has not yet
\* finished the step.
InStep(i) == pc[i] \in {"mutate", "decide"}

\* chain j has finished step r and the hub has taken its report.
HasReported(j, r) == steps[j] > r \/ (steps[j] = r /\ pc[j] # "report")

\* C18: lockstep rounds.  The step counts of any two chains differ by at most
\* 1; a chain that holds the state of its step r + 1 does so only when every
\* chain has reported step r; and during the exchange pass every chain has
\* completed the same number of steps and waits.
Lockstep ==
    /\ \A i, j \in Chains : steps[i] - steps[j] <= 1
    /\ \A i, j \in Chains :
          (InStep(i) /\ steps[i] >= 1) => HasReported(j, steps[i])
    /\ hub_pc = "exchange" =>
          \A i \in Chains : steps[i] = steps[0] /\ pc[i] = "wait"

\* Chain 0 has finished its second step while the last chain, one step
\* behind, has only just received the state of its second step.
LockstepWitness ==
    /\ steps[0] = 2 /\ pc[0] = "report"
    /\ steps[THREADS - 1] = 1 /\ pc[THREADS - 1] = "mutate"

-----------------------------------------------------------------------------
(* Ends of the exchange pass *)

MaxReported == CHOOSE m \in { reported[n].Score : n \in Chains } :
                   \A n \in Chains : reported[n].Score <= m

MinOfFirstTwo == IF reported[0].Score <= reported[1].Score
                 THEN reported[0].Score
                 ELSE reported[1].Score

\* C19: the state resumed on the last slot has the largest score reported in
\* the round, and the state resumed on slot 0 has the smaller of the scores
\* reported on slots 0 and 1.
ExchangeEnds ==
    /\ resumed[THREADS - 1].ptr # 0 => resumed[THREADS - 1].Score = MaxReported
    /\ resumed[0].ptr # 0 => resumed[0].Score = MinOfFirstTwo

\* A round was resumed in which slot 0 reported the largest score and slot 1
\* a smaller one: both ends of the pass changed hands.
ExchangeEndsWitness ==
    /\ AllResumed
    /\ reported[0].Score = MaxReported
    /\ reported[THREADS - 1].Score < MaxReported
    /\ reported[1].Score < reported[0].Score
    /\ resumed[0].ptr = reported[1].ptr
    /\ resumed[THREADS - 1].ptr = reported[0].ptr

-----------------------------------------------------------------------------
(* The state handed to chain 0 *)

\* Chain 0 has just been resumed after a step: resumed[0] is the state the
\* hub handed it now, old_state[0] the copy chain 0 took of the state it was
\* handed the round before.
HandedAgain ==
    /\ pc[0] = "mutate" /\ steps[0] >= 1
    /\ resumed[0].ptr # 0 /\ my_state[0] = resumed[0].ptr

\* C20 as stated: with heat 0 on chain 0, the score of the state handed to
\* chain 0 is never above the score of the state handed to it the round
\* before.
HandedScoreNeverIncreases ==
    (Heat[0] = 0 /\ HandedAgain) => resumed[0].Score <= old_state[0].Score

====
